---- MODULE Spec2Model ----
(***************************************************************************)
(* A model of the WheelStudio build tooling: build_wheels.py (the wheel    *)
(* builder) and manage_submodules.py (the submodule manager).              *)
(*                                                                         *)
(* File names are sequences of tokens, so that the substring and suffix   *)
(* tests of the code ("laion_clap-1.1.4" in file, file.endswith('.whl'))  *)
(* are tests on tokens.  File contents are sequences of characters or of  *)
(* lexical tokens.  The outcome of every external command and of every    *)
(* file operation that can fail is an input of the action that issues it. *)
(***************************************************************************)
EXTENDS Integers, Sequences, FiniteSets, TLC

VARIABLES
    \* ---- artifact collection (copy_wheels) ----
    wheels_dir,      \* the shared output directory: [exists, files]
    source_dir,      \* the distribution directory of the last copy_wheels call
    target_before,   \* the output directory's files when that call started
    fresh,           \* the files that call wrote into the output directory
    copy_ret,        \* what the last copy_wheels call returned
    \* ---- version resolution (get_project_version) ----
    version_txt,     \* <project>/version.txt: [exists, content]
    setup_py,        \* <project>/setup.py: [exists, content]
    pyproject_toml,  \* <project>/pyproject.toml: [exists, content]
    version,         \* what get_project_version returned: [found, value]
    ver_pc,          \* "idle", "start" (not yet called) or "done"
    \* ---- GPU target list of the fairseq build on Linux ----
    smi_query,       \* outcome of nvidia-smi --query-gpu=compute_cap: [ok, lines]
    arch_list,       \* the value given to TORCH_CUDA_ARCH_LIST, before the join
    arch_pc,         \* "idle", "start" or "done"
    \* ---- submodule manager (manage_submodules.py) ----
    gitmodules,      \* names with a "path = <name>" entry in .gitmodules
    subdir,          \* name -> the directory <name>: [dir, changes]
    temp_dir,        \* name -> whether the directory <name>_temp exists
    backup,          \* name -> backup_repos/<name>_backup: [exists, has_patch, patch]
    sub_pc,          \* "off", "idle", "add", "check", "init" or "crashed"
    sub_mode,        \* the operation the command line selected
    sub_idx,         \* position in SUBMODULES of the next name to process
    sub_last,        \* the name the last step processed ("none": no name)
    sub_before,      \* that name's registration and directory before the step
    sub_ops,         \* commands and file operations the last step issued
    sub_in,          \* outcomes met by the last step: [moveFails, addOk]
    sub_failed,      \* a command or file operation of this run has failed
    \* ---- wheel builder (build_wheels.py, main) ----
    build_args,      \* the parsed command line: [package, cuda_home]
    machine,         \* the host: [smi, torch, platform, nvcc, toolkit]
    present,         \* the names of `all_projects` whose directory exists
    nested_version,  \* fairseq/fairseq/version.txt: [exists, content]
    heads,           \* submodule -> the commit its checkout is at
    refresh,         \* how the update_submodules call just made went
    environ,         \* os.environ: name -> value
    build_env,       \* the environment handed to the last build tool run
    projects,        \* main's list of projects to build
    idx,             \* position in `projects` of the loop of lines 631-648
    pc,              \* where main is
    cuda_available,  \* main's cuda_available
    total_wheels,    \* main's total_wheels
    copied_wheels,   \* main's copied_wheels
    build_version,   \* `version` of the build_wheel call in progress
    log,             \* calls made and messages printed, in order
    \* ---- CUDA toolkit lookup on Windows (find_cuda_home) ----
    cuda_registry,   \* the registry key of the toolkit: [ok, keys]
    cuda_roots,      \* install location -> [exists, dirs]
    cuda_found,      \* what find_cuda_home returned: [source, root, name]
    cuda_pc          \* "idle", "start" (not yet called) or "done"

copyVars == <<wheels_dir, source_dir, target_before, fresh, copy_ret>>
verVars == <<version_txt, setup_py, pyproject_toml, version, ver_pc>>

archVars == <<smi_query, arch_list, arch_pc>>

subFs == <<gitmodules, subdir, temp_dir, backup>>
subVars == <<gitmodules, subdir, temp_dir, backup, sub_pc, sub_mode, sub_idx,
             sub_last, sub_before, sub_ops, sub_in, sub_failed>>

buildVars == <<build_args, machine, present, nested_version, heads, refresh,
               environ, build_env,
               projects, idx, pc, cuda_available, total_wheels, copied_wheels,
               build_version, log>>

cudaVars == <<cuda_registry, cuda_roots, cuda_found, cuda_pc>>

vars == <<copyVars, verVars, archVars, subVars, buildVars, cudaVars>>

\* What each specification leaves alone.
restOfCopy == <<verVars, archVars, subVars, buildVars, cudaVars>>
restOfVer == <<copyVars, archVars, subVars, buildVars, cudaVars>>
restOfArch == <<copyVars, verVars, subVars, buildVars, cudaVars>>
restOfSub == <<copyVars, verVars, archVars, buildVars, cudaVars>>
restOfBuild == <<source_dir, target_before, fresh, copy_ret, verVars, archVars,
                 subVars, cudaVars>>
restOfCuda == <<copyVars, verVars, archVars, subVars, buildVars>>

\* ------------------------------------------------------------------
\* Helpers on sequences
\* ------------------------------------------------------------------

Range(s) == {s[i] : i \in DOMAIN s}

\* Sequences over S without repetition, of length at most n (a directory
\* listing: os.listdir returns each name once, in arbitrary order).
Listings(S, n) ==
    UNION {{s \in [1..k -> S] : \A i, j \in 1..k : i # j => s[i] # s[j]} : k \in 0..n}

\* ------------------------------------------------------------------
\* Bounds
\* ------------------------------------------------------------------

\* Files listed in one distribution directory.
MaxListing == 3
\* Characters in a version.txt.
MaxVerLen == 2
\* Lines printed by the compute-capability query.
MaxGpus == 2
\* Project directories that exist when the wheel builder starts.
MaxPresent == 2

\* ------------------------------------------------------------------
\* Artifact file names
\* ------------------------------------------------------------------

Clap114 == "laion_clap-1.1.4"
Clap115 == "laion_clap-1.1.5"
WhlSuffix == ".whl"

W114 == <<Clap114, "-py3-none-any", WhlSuffix>>
W115 == <<Clap115, "-py3-none-any", WhlSuffix>>
WFairseq == <<"fairseq-0.12.3", "-cp310-linux_x86_64", WhlSuffix>>
S115 == <<Clap115, ".tar.gz">>

ArtifactNames == {W114, W115, WFairseq, S115}

\* token in file  (Python: "laion_clap-1.1.4" in file)
Contains(file, token) == \E i \in DOMAIN file : file[i] = token

\* file.endswith(suffix)
EndsWith(file, suffix) == Len(file) > 0 /\ file[Len(file)] = suffix

\* ------------------------------------------------------------------
\* copy_wheels
\* ------------------------------------------------------------------

NoReturn == [kind |-> "none", count |-> 0, files |-> <<>>]

\* The skip test of line 422, with the check of the output directory dropped.
IsDuplicateClapAlways(file, listing) == Contains(file, Clap114)

\* line 422: this is a superseded CLAP wheel and the preferred version is
\* already listed in the target directory.
IsDuplicateClap(file, listing) ==
    /\ Contains(file, Clap114)
    /\ \E existing \in listing : Contains(existing, Clap115)

\* The loop of lines 417-429 from position k on.  st holds the target
\* directory's files, the files written by this call, count and copied_files.
\* failAt is the position of the file whose shutil.copy2 raises (0: no copy
\* fails); the exception leaves copy_wheels at once, with the files copied so
\* far in place and nothing returned.
RECURSIVE CopyLoop(_, _, _, _)
CopyLoop(listing, k, st, failAt) ==
    IF k > Len(listing)
    THEN [target |-> st.target, written |-> st.written, raised |-> FALSE,
          ret |-> [kind |-> "pair", count |-> st.count, files |-> st.copied]]
    ELSE LET file == listing[k] IN
         IF ~EndsWith(file, WhlSuffix)
         THEN CopyLoop(listing, k + 1, st, failAt)
         ELSE IF IsDuplicateClap(file, st.target)
         THEN CopyLoop(listing, k + 1, st, failAt)
         ELSE IF k = failAt
         THEN [target |-> st.target, written |-> st.written, raised |-> TRUE,
               ret |-> [kind |-> "raised", count |-> 0, files |-> <<>>]]
         ELSE CopyLoop(listing, k + 1,
                       [target |-> st.target \cup {file},
                        written |-> st.written \cup {file},
                        count |-> st.count + 1,
                        copied |-> Append(st.copied, file)],
                       failAt)

\* copy_wheels(source_dir, target_dir): a missing source directory returns the
\* bare integer 0 (line 413), anything else the pair (count, copied_files).
copy_wheels(source, target, failAt) ==
    IF ~source.exists
    THEN [target |-> target, written |-> {}, raised |-> FALSE,
          ret |-> [kind |-> "int", count |-> 0, files |-> <<>>]]
    ELSE CopyLoop(source.listing, 1,
                  [target |-> target, written |-> {}, count |-> 0, copied |-> <<>>],
                  failAt)

\* ------------------------------------------------------------------
\* get_project_version
\* ------------------------------------------------------------------

NoFile == [exists |-> FALSE, content |-> <<>>]
File(c) == [exists |-> TRUE, content |-> c]

\* None
NoVersion == [found |-> FALSE, value |-> <<>>]
Found(v) == [found |-> TRUE, value |-> v]

\* What str.strip() and the regular expression's \s take for white space.
WhiteSpace == {" ", "\n"}
\* The two quote characters of the character classes ["\'] and [^"\'].
Quotes == {"dq", "sq"}

RECURSIVE LStrip(_)
LStrip(s) ==
    IF s # <<>> /\ s[1] \in WhiteSpace THEN LStrip(Tail(s)) ELSE s

RECURSIVE RStrip(_)
RStrip(s) ==
    IF s # <<>> /\ s[Len(s)] \in WhiteSpace
    THEN RStrip(SubSeq(s, 1, Len(s) - 1))
    ELSE s

\* line 247: f.read().strip()
Strip(s) == RStrip(LStrip(s))

\* \s* from position i: the first position at or after i that holds no
\* white space (Len(c) + 1 when there is none).
RECURSIVE SkipSpace(_, _)
SkipSpace(c, i) ==
    IF i <= Len(c) /\ c[i] \in WhiteSpace THEN SkipSpace(c, i + 1) ELSE i

\* [^"\']+ from position i: the first position at or after i that holds a
\* quote (Len(c) + 1 when there is none).
RECURSIVE SkipToQuote(_, _)
SkipToQuote(c, i) ==
    IF i <= Len(c) /\ c[i] \notin Quotes THEN SkipToQuote(c, i + 1) ELSE i

\* The pattern  version\s*=\s*["\']([^"\']+)["\']  tried at position i.  The
\* word "version" is one token of the content.
MatchAt(c, i) ==
    LET eq == SkipSpace(c, i + 1)
        open == SkipSpace(c, eq + 1)
        close == SkipToQuote(c, open + 1)
    IN  IF /\ c[i] = "version"
           /\ eq <= Len(c) /\ c[eq] = "="
           /\ open <= Len(c) /\ c[open] \in Quotes
           /\ close <= Len(c)
           /\ close > open + 1
        THEN Found(SubSeq(c, open + 1, close - 1))
        ELSE NoVersion

\* re.search from position i on: the leftmost match.
RECURSIVE SearchFrom(_, _)
SearchFrom(c, i) ==
    IF i > Len(c) THEN NoVersion
    ELSE IF MatchAt(c, i).found THEN MatchAt(c, i)
    ELSE SearchFrom(c, i + 1)

\* lines 258 and 271: re.search(...) and, on a match, group(1)
VersionSearch(c) == SearchFrom(c, 1)

\* get_project_version with setup.py consulted before version.txt.
get_project_version_SetupFirst(vt, sp, pp) ==
    IF sp.exists /\ VersionSearch(sp.content).found THEN VersionSearch(sp.content)
    ELSE IF vt.exists THEN Found(Strip(vt.content))
    ELSE IF pp.exists /\ VersionSearch(pp.content).found THEN VersionSearch(pp.content)
    ELSE NoVersion

\* lines 239-278
get_project_version(vt, sp, pp) ==
    IF vt.exists THEN Found(Strip(vt.content))
    ELSE IF sp.exists /\ VersionSearch(sp.content).found THEN VersionSearch(sp.content)
    ELSE IF pp.exists /\ VersionSearch(pp.content).found THEN VersionSearch(pp.content)
    ELSE NoVersion

\* ------------------------------------------------------------------
\* The GPU target list of the fairseq build (build_wheel, lines 345-382)
\* ------------------------------------------------------------------

\* A line of the query's output: the text "major.minor", some other text, or
\* a blank line.
Cap(major, minor) == [kind |-> "num", major |-> major, minor |-> minor]
OtherText == [kind |-> "text", major |-> 0, minor |-> 0]
BlankLine == [kind |-> "blank", major |-> 0, minor |-> 0]

\* float(s) of the text "major.minor", in tenths.
ToFloat(s) == 10 * s.major + s.minor

\* line 362
all_arches ==
    <<Cap(12, 0), Cap(10, 0), Cap(9, 0), Cap(8, 9), Cap(8, 7), Cap(8, 6),
      Cap(8, 0), Cap(7, 5)>>

\* lines 378 and 382: "7.5;8.0;8.6"
CommonArches == <<Cap(7, 5), Cap(8, 0), Cap(8, 6)>>

\* The comparison of line 364 made strict.
ArchBelow(check_arch, max_arch) == ToFloat(check_arch) < max_arch

\* line 364: float(check_arch) <= max_arch
ArchAtMost(check_arch, max_arch) == ToFloat(check_arch) <= max_arch

\* lines 354-357: the non-blank lines of the output
NonBlankLines(lines) ==
    LET NotBlank(l) == l.kind # "blank" IN SelectSeq(lines, NotBlank)

\* lines 347-382: the list whose join is given to TORCH_CUDA_ARCH_LIST.  A
\* failed query (check=True) and a single line that float() cannot read both
\* raise into the except clause of line 379.
DetectArchList(query) ==
    IF ~query.ok THEN CommonArches
    ELSE LET reported == NonBlankLines(query.lines) IN
         IF Len(reported) = 1
         THEN IF reported[1].kind # "num" THEN CommonArches
              ELSE LET max_arch == ToFloat(reported[1])
                       Fits(a) == ArchAtMost(a, max_arch)
                       better_arches == SelectSeq(all_arches, Fits)
                   IN  IF Len(better_arches) > 0 THEN better_arches ELSE reported
         ELSE IF Len(reported) > 0 THEN reported
         ELSE CommonArches

\* ------------------------------------------------------------------
\* manage_submodules.py
\* ------------------------------------------------------------------

\* lines 10-19: the keys of SUBMODULES, in the order the dictionary lists them
SUBMODULES ==
    <<"coqui-ai-TTS", "mamba", "causal-conv1d", "fairseq", "stable-audio-tools",
      "versatile_audio_super_resolution", "openvoice-cli", "CLAP">>

SubmoduleNames == Range(SUBMODULES)

\* lines 58 and 80
max_attempts == 3

\* What a working tree can hold that is not committed.
ChangeKinds == {"staged", "unstaged", "untracked"}

\* A directory <name>: absent, "plain" (no .git inside) or "repo" (.git inside).
AbsentDir == [dir |-> "absent", changes |-> {}]
PlainDir == [dir |-> "plain", changes |-> {}]
RepoDir(changes) == [dir |-> "repo", changes |-> changes]

NoTemp == FALSE
NoBackup == [exists |-> FALSE, has_patch |-> FALSE, patch |-> {}]

\* lines 31-37, for the configured names (none is part of another)
check_submodule_exists(name) == name \in gitmodules

\* lines 39-41
check_if_directory_exists(name) == subdir[name].dir # "absent"

\* os.path.exists(f"{name}/.git"), lines 106 and 177
HasDotGit(name) == subdir[name].dir = "repo"

\* lines 56-96: the retry loop of safely_move_directory and
\* safely_remove_directory, whose first `fails` attempts raise a file error.
RECURSIVE RetryFrom(_, _)
RetryFrom(attempts, fails) ==
    IF attempts < max_attempts
    THEN IF attempts >= fails
         THEN [ok |-> TRUE, attempts |-> attempts + 1]
         ELSE RetryFrom(attempts + 1, fails)
    ELSE [ok |-> FALSE, attempts |-> attempts]

\* The retry loop taken to report success whatever its attempts met.
SafelyRetryOptimistic(fails) == [ok |-> TRUE, attempts |-> RetryFrom(0, fails).attempts]

SafelyRetry(fails) == RetryFrom(0, fails)

\* line 177: the submodule's path holds no .git
NeedsInit(name) == ~HasDotGit(name)

\* git submodule update taken to check nothing out.
UpdateChecksOutNone(name) == FALSE

\* line 47: git submodule update checks out the registered submodules that
\* are not checked out yet
UpdateChecksOut(name) == check_submodule_exists(name) /\ ~HasDotGit(name)

\* The test of line 101 inverted.
IsMissingInverted(name) == check_submodule_exists(name)

\* line 101
IsMissing(name) == ~check_submodule_exists(name)

\* One iteration of the loop of add_missing_submodules (lines 100-171) for
\* `name`.  `in` holds the outcome of every command and file operation the
\* iteration may issue.  The result holds the new registration, directory,
\* moved-aside copy and backup of `name`, the operations issued, and
\* `crashed`: an exception no handler of the script catches.
add_missing_one(name, in) ==
    LET d == subdir[name]
        unchanged == [registered |-> name \in gitmodules, dir |-> d,
                      temp |-> temp_dir[name], backup |-> backup[name],
                      ops |-> <<>>, crashed |-> FALSE]
        added == IF in.addOk THEN RepoDir({}) ELSE AbsentDir
        rmTemp == SafelyRetry(in.rmTempFails).ok
        moved == SafelyRetry(in.moveFails).ok
        movedAside == TRUE
    IN
    IF ~IsMissing(name) THEN unchanged
    ELSE IF ~check_if_directory_exists(name)
    THEN \* lines 168-171
         [unchanged EXCEPT !.registered = in.addOk, !.dir = added,
                           !.ops = <<"git submodule add">>]
    ELSE IF ~HasDotGit(name)
    THEN \* lines 156-167
         IF ~moved
         THEN [unchanged EXCEPT !.ops = <<"move">>]
         ELSE [unchanged EXCEPT
                 !.registered = in.addOk, !.dir = added,
                 !.temp = IF rmTemp THEN NoTemp ELSE movedAside,
                 !.ops = <<"move", "git submodule add", "rmtree temp">>]
    ELSE \* lines 105-154
         LET cleared == IF SafelyRetry(in.rmBackupFails).ok THEN NoBackup
                        ELSE backup[name]
             \* lines 115-116: a failed git status returns the output it
             \* captured, taken here to be empty
             has_changes == in.statusOk /\ d.changes # {}
             \* line 122: git diff prints the unstaged changes of tracked files
             diffOut == IF in.diffOk THEN d.changes \cap {"unstaged"} ELSE {}
             saved == IF has_changes
                      THEN [exists |-> TRUE, has_patch |-> TRUE, patch |-> diffOut]
                      ELSE cleared
             saveOps == <<"makedirs backup_repos", "rmtree backup", "git status">> \o
                        (IF has_changes
                         THEN <<"git diff --staged", "git diff", "write patch">>
                         ELSE <<>>)
             \* lines 139-144
             applies == has_changes /\ saved.has_patch /\ saved.patch # {}
         IN
         IF ~moved
         THEN [unchanged EXCEPT !.backup = saved, !.ops = saveOps \o <<"move">>]
         ELSE IF applies /\ ~in.addOk
         THEN \* line 150: subprocess.run with a cwd that does not exist raises
              \* FileNotFoundError, which run_command does not catch
              [unchanged EXCEPT
                 !.registered = FALSE, !.dir = AbsentDir, !.temp = movedAside,
                 !.backup = saved,
                 !.ops = saveOps \o <<"move", "git submodule add",
                                      "write temp.patch", "git apply">>,
                 !.crashed = TRUE]
         ELSE [unchanged EXCEPT
                 !.registered = in.addOk,
                 !.dir = IF applies /\ in.applyOk THEN RepoDir(saved.patch) ELSE added,
                 !.temp = IF rmTemp THEN NoTemp ELSE movedAside,
                 !.backup = saved,
                 !.ops = saveOps \o <<"move", "git submodule add">> \o
                         (IF applies THEN <<"write temp.patch", "git apply">> ELSE <<>>) \o
                         <<"rmtree temp">>]

\* One iteration of the loop of check_and_pull_submodules (lines 175-183).
check_and_pull_one(name, initOk) ==
    LET unchanged == [dir |-> subdir[name], ops |-> <<>>] IN
    IF check_submodule_exists(name) /\ NeedsInit(name)
    THEN [dir |-> IF initOk THEN RepoDir({}) ELSE subdir[name],
          ops |-> <<"git submodule update --init">>]
    ELSE unchanged

\* lines 199-209: the operation the flags select
SelectMode(args) ==
    IF args.add_missing THEN "add_missing"
    ELSE IF args.update THEN "update"
    ELSE IF args.check THEN "check"
    ELSE IF args.setup THEN "setup"
    ELSE "check"

\* ------------------------------------------------------------------
\* build_wheels.py: the wheel builder
\* ------------------------------------------------------------------

\* The build order with mamba moved in front of causal-conv1d.
all_projects_MambaFirst ==
    <<"CLAP", "openvoice-cli", "versatile_audio_super_resolution",
      "stable-audio-tools", "fairseq", "mamba", "causal-conv1d", "coqui-ai-TTS",
      "dctorch">>

\* lines 563-573: the build order
all_projects ==
    <<"CLAP", "openvoice-cli", "versatile_audio_super_resolution",
      "stable-audio-tools", "fairseq", "causal-conv1d", "mamba", "coqui-ai-TTS",
      "dctorch">>

ProjectNames == Range(all_projects)

\* A string option of the command line (lines 439-442): None when the option
\* is not given, else the text given.
NoArg == [given |-> FALSE, text |-> ""]
Arg(t) == [given |-> TRUE, text |-> t]

\* Python's truth of an optional string: None and "" are false.
Truthy(a) == a.given /\ a.text # ""

\* The value of an environment variable: a text, or the list whose join with
\* ";" is the text (TORCH_CUDA_ARCH_LIST).
EnvUnset == [kind |-> "unset", text |-> "", list |-> <<>>]
EnvText(t) == [kind |-> "text", text |-> t, list |-> <<>>]
EnvArches(l) == [kind |-> "arches", text |-> "", list |-> l]

\* The environment variables the builder reads or writes.
EnvNames ==
    {"CUDA_HOME", "TORCH_CUDA_ARCH_LIST", "FORCE_CUDA", "CAUSAL_CONV1D_FORCE_BUILD",
     "MAMBA_FORCE_BUILD"}

NoEnv == [n \in EnvNames |-> EnvUnset]

\* lines 293 and 299
PinnedVersion == <<"0.12.3">>

\* One entry of the log: a call or a printed message, and its project.
Ev(op, project) == [op |-> op, project |-> project]

\* lines 54-77.  nvidia-smi runs and its exit code decides; when it cannot
\* be started, torch decides; when torch cannot be imported, the nvcc glob
\* decides on Windows.
has_cuda(m) ==
    IF m.smi = "ok" THEN TRUE
    ELSE IF m.smi = "fail" THEN FALSE
    ELSE IF m.torch # "absent" THEN m.torch = "cuda"
    ELSE m.platform = "Windows" /\ m.nvcc

\* lines 145-149
CommonPaths == <<"/usr/local/cuda", "/opt/cuda", "/usr/lib/cuda">>

\* lines 80-154.  m.win_cuda is what the registry and Program Files lookups
\* of lines 85-142 come to on the host.
find_cuda_home(env, m) ==
    IF env["CUDA_HOME"].kind # "unset" THEN Arg(env["CUDA_HOME"].text)
    ELSE IF m.platform = "Windows" THEN m.win_cuda
    ELSE LET Exists(p) == p \in m.paths
             hits == SelectSeq(CommonPaths, Exists)
         IN  IF hits # <<>> THEN Arg(hits[1]) ELSE NoArg

\* lines 162-188.  pipOk is the outcome of the pip command if one is run.
\* run_command re-raises the failure of the command (line 51); the only
\* handler here is for ImportError, so the failure leaves the function.
ensure_torch_with_cuda(m, pipOk) ==
    IF ~has_cuda(m) \/ m.torch = "cuda"
    THEN [torch |-> m.torch, pip |-> FALSE, raised |-> FALSE]
    ELSE [torch |-> IF pipOk THEN "cuda" ELSE m.torch, pip |-> TRUE,
          raised |-> ~pipOk]

\* Commits a submodule checkout can be at: the pinned commit of line 470,
\* the tip of its default branch, some other commit.
Commits == {"pin", "tip", "old"}

\* How ensure_fairseq_version goes: every command succeeds, git rev-parse
\* fails, or git fetch or git checkout fails.
PinOutcomes == {"ok", "revparse_fails", "checkout_fails"}

\* ensure_fairseq_version (lines 465-493).  A failing command is caught at
\* line 491 and leaves what was there.
ensure_fairseq_version(head, nested, pin) ==
    IF pin = "revparse_fails" THEN [head |-> head, nested |-> nested, ok |-> FALSE]
    ELSE IF head = "pin" THEN [head |-> head, nested |-> nested, ok |-> TRUE]
    ELSE IF pin = "checkout_fails" THEN [head |-> head, nested |-> nested, ok |-> FALSE]
    ELSE [head |-> "pin", nested |-> File(PinnedVersion), ok |-> TRUE]

\* update_submodules (lines 496-549).  listed are the submodules that git
\* submodule status prints; hds and nested are the commits of the checkouts
\* and the nested version file of fairseq after git submodule update;
\* in.pulled are the listed submodules whose checkout and pull of the default
\* branch succeed.  clean: fairseq is listed and no command failed.
update_submodules(listed, hds, nested, in) ==
    LET f == ensure_fairseq_version(hds["fairseq"], nested, in.pin)
        pins == in.refreshOk /\ "fairseq" \in listed
    IN  [heads |-> [n \in DOMAIN hds |->
                       IF ~in.refreshOk \/ n \notin listed THEN hds[n]
                       ELSE IF n = "fairseq" THEN f.head
                       ELSE IF n \in in.pulled THEN "tip"
                       ELSE hds[n]],
         nested |-> IF pins THEN f.nested ELSE nested,
         clean |-> pins /\ f.ok /\ in.pulled = listed \ {"fairseq"}]

\* The test of line 633 with every project directory taken to exist.
ProjectExistsAlways(project) == TRUE

\* line 633: os.path.exists(project_path)
ProjectExists(project) == project \in present

\* lines 334-397: the overlay put on the copy of the environment.
BuildOverlay(project_name, env, m, query) ==
    LET cuda == has_cuda(m)
        e1 == IF project_name = "causal-conv1d" /\ cuda
              THEN [env EXCEPT !["TORCH_CUDA_ARCH_LIST"] = EnvText("all"),
                               !["CAUSAL_CONV1D_FORCE_BUILD"] = EnvText("TRUE")]
              ELSE env
    IN  IF project_name = "fairseq" /\ cuda
        THEN [e1 EXCEPT
                !["TORCH_CUDA_ARCH_LIST"] =
                    IF m.platform = "Linux"
                    THEN EnvArches(DetectArchList(query))
                    ELSE EnvText("all"),
                !["FORCE_CUDA"] = EnvText("1")]
        ELSE IF project_name = "mamba" /\ cuda
        THEN [e1 EXCEPT !["TORCH_CUDA_ARCH_LIST"] = EnvText("all"),
                        !["MAMBA_FORCE_BUILD"] = EnvText("TRUE")]
        ELSE e1

\* The overlay written into os.environ itself.
ProcessEnvAliased(env, built) == built

\* line 331: env is a copy of os.environ, so the overlay of lines 334-397
\* leaves os.environ as it was
ProcessEnvAfter(env, built) == env

\* build_wheel up to the build command (lines 283-398).  files are the
\* project's version.txt, setup.py and pyproject.toml; nested is
\* <project>/fairseq/version.txt; fileError tells that removing a directory
\* of an earlier build (lines 306-311) raises.  The result holds `version`, the
\* nested file and os.environ as the call leaves them, the environment made
\* for the build tool, and `returns`: "none" when the call has returned None,
\* "build" when it has reached the build command.
build_wheel_setup(project_name, files, nested, env, m, query, fileError) ==
    LET resolved == get_project_version(files.version_txt, files.setup_py,
                                        files.pyproject_toml)
        resets == /\ resolved.found
                  /\ resolved.value # <<>>
                  /\ project_name = "fairseq"
                  /\ resolved.value # PinnedVersion
                  /\ nested.exists
        nested1 == IF resets THEN File(PinnedVersion) ELSE nested
        home == find_cuda_home(env, m)
        env1 == IF has_cuda(m) /\ env["CUDA_HOME"].kind = "unset" /\ Truthy(home)
                THEN [env EXCEPT !["CUDA_HOME"] = EnvText(home.text)]
                ELSE env
    IN  IF fileError \/ ~files.pyproject_toml.exists
        THEN [version |-> resolved, nested |-> nested1, environ |-> env,
              build_env |-> NoEnv, returns |-> "none"]
        ELSE [version |-> resolved, nested |-> nested1,
              environ |-> ProcessEnvAfter(env1, BuildOverlay(project_name, env1, m, query)),
              build_env |-> BuildOverlay(project_name, env1, m, query),
              returns |-> "build"]

\* ------------------------------------------------------------------
\* find_cuda_home on Windows (lines 85-142)
\* ------------------------------------------------------------------

\* The decimal digits, and the characters of a version name in the order
\* Python compares them ("." < "0" < ... < "9" < "v").
DigitChars == <<"0", "1", "2", "3", "4", "5", "6", "7", "8", "9">>
CharOrder == <<".">> \o DigitChars \o <<"v">>

IndexIn(seq, c) == CHOOSE i \in DOMAIN seq : seq[i] = c

IsDigit(c) == \E i \in DOMAIN DigitChars : DigitChars[i] = c

\* The text of a number below 100.
Decimal(n) ==
    IF n < 10 THEN <<DigitChars[n + 1]>>
    ELSE <<DigitChars[(n \div 10) + 1], DigitChars[(n % 10) + 1]>>

\* The directory or registry key name "v<major>.<minor>", as characters.
VersionName(major, minor) == <<"v">> \o Decimal(major) \o <<".">> \o Decimal(minor)

\* int(text): -1 stands for the ValueError of a text that is no number.
RECURSIVE IntFrom(_, _)
IntFrom(text, acc) ==
    IF text = <<>> THEN acc
    ELSE IF ~IsDigit(text[1]) THEN -1
    ELSE IntFrom(Tail(text), 10 * acc + IndexIn(DigitChars, text[1]) - 1)

ParseInt(text) == IF text = <<>> THEN -1 ELSE IntFrom(text, 0)

\* text.split('.')
RECURSIVE SplitDots(_, _)
SplitDots(text, part) ==
    IF text = <<>> THEN <<part>>
    ELSE IF text[1] = "." THEN <<part>> \o SplitDots(Tail(text), <<>>)
    ELSE SplitDots(Tail(text), Append(part, text[1]))

\* lines 100-105: major * 100 + minor of a key name, -1 when the name does
\* not start with "v" or a part is no number (the key is passed over).
KeyVersion(version_str) ==
    IF version_str = <<>> \/ version_str[1] # "v" THEN -1
    ELSE LET version_parts == SplitDots(Tail(version_str), <<>>)
             major == ParseInt(version_parts[1])
             minor == IF Len(version_parts) > 1 THEN ParseInt(version_parts[2]) ELSE 0
         IN  IF major < 0 \/ minor < 0 THEN -1 ELSE major * 100 + minor

\* a < b for two texts, as Python compares strings.
RECURSIVE StrLess(_, _)
StrLess(a, b) ==
    IF b = <<>> THEN FALSE
    ELSE IF a = <<>> THEN TRUE
    ELSE IF a[1] = b[1] THEN StrLess(Tail(a), Tail(b))
    ELSE IndexIn(CharOrder, a[1]) < IndexIn(CharOrder, b[1])

NoCudaHome == [source |-> "none", root |-> "", name |-> <<>>]

\* lines 87-121: the registry lookup.  The keys are enumerated and the one
\* with the greatest major * 100 + minor above 0 is kept.
RegistryLookup(registry) ==
    LET readable == {k \in registry.keys : KeyVersion(k) > 0} IN
    IF ~registry.ok \/ readable = {} THEN NoCudaHome
    ELSE [source |-> "registry", root |-> "InstallPath",
          name |-> CHOOSE k \in readable :
                       \A other \in readable : KeyVersion(other) <= KeyVersion(k)]

\* lines 125-126
CudaRootDirs == <<"C:/Program Files/NVIDIA GPU Computing Toolkit/CUDA", "C:/NVIDIA/CUDA">>

\* lines 129-132: versions.sort(reverse=True) and versions[0]
NewestIn(versions) ==
    CHOOSE v \in versions : \A other \in versions : other = v \/ StrLess(other, v)

\* lines 124-142: the first install location that exists and holds a
\* directory whose name starts with "v" gives cuda_paths[0].
DirectoryLookup(roots) ==
    LET Versions(r) == {d \in roots[r].dirs : d # <<>> /\ d[1] = "v"}
        Usable(r) == roots[r].exists /\ Versions(r) # {}
        hits == SelectSeq(CudaRootDirs, Usable)
    IN  IF hits = <<>> THEN NoCudaHome
        ELSE [source |-> "directory", root |-> hits[1],
              name |-> NewestIn(Versions(hits[1]))]

\* lines 85-142: the registry first, the install locations when it gives
\* nothing.
find_cuda_home_windows(registry, roots) ==
    IF RegistryLookup(registry) # NoCudaHome THEN RegistryLookup(registry)
    ELSE DirectoryLookup(roots)

\* ------------------------------------------------------------------
\* Specification of artifact collection alone: copy_wheels called again and
\* again on one output directory, from any distribution directory.
\* ------------------------------------------------------------------

NoSource == [exists |-> FALSE, listing |-> <<>>]

SourceDirs ==
    {NoSource} \cup
    {[exists |-> TRUE, listing |-> l] : l \in Listings(ArtifactNames, MaxListing)}

IsWheelOf(file, token) == EndsWith(file, WhlSuffix) /\ Contains(file, token)

HoldsBothClap(files) ==
    \E f, g \in files : IsWheelOf(f, Clap114) /\ IsWheelOf(g, Clap115)

NoWheelsDir == [exists |-> FALSE, files |-> {}]

QueryFailed == [ok |-> FALSE, lines |-> <<>>]

NoMachine ==
    [smi |-> "notfound", torch |-> "absent", platform |-> "Linux", nvcc |-> FALSE,
     paths |-> {}, win_cuda |-> NoArg]

NoOutcomes == [moveFails |-> 0, addOk |-> TRUE]

NoSnapshot ==
    [registered |-> FALSE, dir |-> AbsentDir, temp |-> NoTemp, backup |-> NoBackup]

\* The state of the parts a specification does not use.
CopyIdle ==
    /\ source_dir = NoSource
    /\ target_before = {}
    /\ fresh = {}
    /\ copy_ret = NoReturn

VerIdle ==
    /\ version_txt = NoFile
    /\ setup_py = NoFile
    /\ pyproject_toml = NoFile
    /\ version = NoVersion
    /\ ver_pc = "idle"

ArchIdle ==
    /\ smi_query = QueryFailed
    /\ arch_list = <<>>
    /\ arch_pc = "idle"

SubIdle ==
    /\ gitmodules = {}
    /\ subdir = [n \in SubmoduleNames |-> AbsentDir]
    /\ temp_dir = [n \in SubmoduleNames |-> NoTemp]
    /\ backup = [n \in SubmoduleNames |-> NoBackup]
    /\ sub_pc = "off"
    /\ sub_mode = "none"
    /\ sub_idx = 0
    /\ sub_last = "none"
    /\ sub_before = NoSnapshot
    /\ sub_ops = <<>>
    /\ sub_in = NoOutcomes
    /\ sub_failed = FALSE

BuildIdle ==
    /\ build_args = [package |-> NoArg, cuda_home |-> NoArg]
    /\ machine = NoMachine
    /\ present = {}
    /\ nested_version = NoFile
    /\ heads = [n \in SubmoduleNames |-> "tip"]
    /\ refresh = "none"
    /\ environ = NoEnv
    /\ build_env = NoEnv
    /\ projects = <<>>
    /\ idx = 0
    /\ pc = "off"
    /\ cuda_available = FALSE
    /\ total_wheels = 0
    /\ copied_wheels = <<>>
    /\ build_version = NoVersion
    /\ log = <<>>

NoRegistry == [ok |-> FALSE, keys |-> {}]
NoRoot == [exists |-> FALSE, dirs |-> {}]

CudaIdle ==
    /\ cuda_registry = NoRegistry
    /\ cuda_roots = [r \in Range(CudaRootDirs) |-> NoRoot]
    /\ cuda_found = NoCudaHome
    /\ cuda_pc = "idle"

\* The output directory exists and holds any files but the two CLAP wheels
\* together.
CopyInit ==
    /\ wheels_dir \in {[exists |-> TRUE, files |-> F] :
                          F \in {G \in SUBSET ArtifactNames : ~HoldsBothClap(G)}}
    /\ CopyIdle
    /\ VerIdle
    /\ ArchIdle
    /\ SubIdle
    /\ BuildIdle
    /\ CudaIdle

CopyCall ==
    \E src \in SourceDirs, failAt \in 0..MaxListing :
        LET r == copy_wheels(src, wheels_dir.files, failAt) IN
        /\ wheels_dir.exists
        /\ failAt <= Len(src.listing)
        /\ source_dir' = src
        /\ target_before' = wheels_dir.files
        /\ fresh' = r.written
        /\ copy_ret' = r.ret
        /\ wheels_dir' = [wheels_dir EXCEPT !.files = r.target]
        /\ UNCHANGED restOfCopy

CopyNext == CopyCall

SpecCopy == CopyInit /\ [][CopyNext]_vars

\* ------------------------------------------------------------------
\* C1.  After any sequence of copy_wheels calls into one output directory
\* that did not hold both to start with, the directory never holds both a
\* laion_clap-1.1.4 wheel and a laion_clap-1.1.5 wheel.
\* ------------------------------------------------------------------
C1_AtMostOneClapWheel == ~HoldsBothClap(wheels_dir.files)

\* ------------------------------------------------------------------
\* C2.  A copy_wheels call that read its source directory and returned:
\* a laion_clap-1.1.4 wheel was copied iff no file containing
\* laion_clap-1.1.5 was in the target when it was processed, every other
\* wheel was copied, and the returned count and list are the number and the
\* names of the files written, in listing order, without the skipped ones.
\* ------------------------------------------------------------------
CopiedAt(k) == source_dir.listing[k] \in fresh

TargetAt(k) ==
    target_before \cup {source_dir.listing[j] : j \in {i \in 1..(k - 1) : CopiedAt(i)}}

IsSubsequenceInOrder(s, l) ==
    \E f \in [DOMAIN s -> DOMAIN l] :
        /\ \A i \in DOMAIN s : s[i] = l[f[i]]
        /\ \A i, j \in DOMAIN s : i < j => f[i] < f[j]

C2_CopyRule ==
    (copy_ret.kind = "pair") =>
        LET L == source_dir.listing IN
        /\ \A k \in DOMAIN L :
              IF IsWheelOf(L[k], Clap114)
              THEN CopiedAt(k) <=> ~(\E e \in TargetAt(k) : Contains(e, Clap115))
              ELSE CopiedAt(k) <=> EndsWith(L[k], WhlSuffix)
        /\ fresh \subseteq Range(L)
        /\ wheels_dir.files = target_before \cup fresh
        /\ copy_ret.count = Cardinality(fresh)
        /\ Len(copy_ret.files) = copy_ret.count
        /\ Range(copy_ret.files) = fresh
        /\ IsSubsequenceInOrder(copy_ret.files, L)

\* A call that skipped the 1.1.4 wheel and copied another wheel.
C2_Witness ==
    /\ copy_ret.kind = "pair"
    /\ W114 \in Range(source_dir.listing)
    /\ W114 \notin fresh
    /\ WFairseq \in fresh
    /\ copy_ret.count = 1

\* ------------------------------------------------------------------
\* Specification of version resolution alone: get_project_version called
\* once on a project directory holding any of the three files.
\* ------------------------------------------------------------------

VerChars == {"1", " ", "\n"}

VersionTexts == UNION {[1..n -> VerChars] : n \in 0..MaxVerLen}

\* Contents of a setup.py or pyproject.toml, as tokens.
ScriptTexts ==
    { <<>>,
      <<"version", "=", "dq", "1", "dq">>,
      <<"version", " ", "=", "\n", "sq", "2", "sq">>,
      <<"name", "=", "dq", "1", "dq">>,
      <<"version", "=", "dq", "dq", "\n", "version", "=", "sq", "2", "dq">>,
      <<"version", "=", "dq", "1">>,
      <<"x", "version", "=", "sq", "1", " ", "2", "sq", "version", "=", "dq", "2", "dq">>,
      <<"version", "(", "dq", "1", "dq", ")">> }

VerInit ==
    /\ version_txt \in {NoFile} \cup {File(c) : c \in VersionTexts}
    /\ setup_py \in {NoFile} \cup {File(c) : c \in ScriptTexts}
    /\ pyproject_toml \in {NoFile} \cup {File(c) : c \in ScriptTexts}
    /\ version = NoVersion
    /\ ver_pc = "start"
    /\ wheels_dir = NoWheelsDir
    /\ CopyIdle
    /\ ArchIdle
    /\ SubIdle
    /\ BuildIdle
    /\ CudaIdle

ResolveVersion ==
    /\ ver_pc = "start"
    /\ version' = get_project_version(version_txt, setup_py, pyproject_toml)
    /\ ver_pc' = "done"
    /\ UNCHANGED <<version_txt, setup_py, pyproject_toml, restOfVer>>

VerNext == ResolveVersion

SpecVersion == VerInit /\ [][VerNext]_vars

\* v is c without its leading and trailing white space.
IsStripOf(v, c) ==
    \E a, b \in 0..Len(c) :
        /\ a + b <= Len(c)
        /\ v = SubSeq(c, a + 1, Len(c) - b)
        /\ \A i \in 1..a : c[i] \in WhiteSpace
        /\ \A i \in (Len(c) - b + 1)..Len(c) : c[i] \in WhiteSpace
        /\ v # <<>> => (v[1] \notin WhiteSpace /\ v[Len(v)] \notin WhiteSpace)

\* The pattern matches c at position i with a white-space characters before
\* the "=", b after it, and a quoted value of n characters.
MatchesAt(c, i, a, b, n) ==
    /\ n >= 1
    /\ i + a + b + n + 3 <= Len(c)
    /\ c[i] = "version"
    /\ \A j \in (i + 1)..(i + a) : c[j] \in WhiteSpace
    /\ c[i + a + 1] = "="
    /\ \A j \in (i + a + 2)..(i + a + b + 1) : c[j] \in WhiteSpace
    /\ c[i + a + b + 2] \in Quotes
    /\ \A j \in (i + a + b + 3)..(i + a + b + n + 2) : c[j] \notin Quotes
    /\ c[i + a + b + n + 3] \in Quotes

MatchedAt(c, i) == \E a, b, n \in 0..Len(c) : MatchesAt(c, i, a, b, n)

HasVersionField(f) == f.exists /\ \E i \in DOMAIN f.content : MatchedAt(f.content, i)

\* v is the quoted value of the leftmost match of the pattern in c.
IsVersionField(v, c) ==
    \E i \in DOMAIN c :
        /\ \E a, b \in 0..Len(c) :
              /\ MatchesAt(c, i, a, b, Len(v))
              /\ v = SubSeq(c, i + a + b + 3, i + a + b + Len(v) + 2)
        /\ \A h \in 1..(i - 1) : ~MatchedAt(c, h)

\* The precedence below version.txt: setup.py's version field, then
\* pyproject.toml's, then None.
FallbackPrecedence ==
    ~version_txt.exists =>
        /\ HasVersionField(setup_py) =>
              version.found /\ IsVersionField(version.value, setup_py.content)
        /\ (~HasVersionField(setup_py) /\ HasVersionField(pyproject_toml)) =>
              version.found /\ IsVersionField(version.value, pyproject_toml.content)
        /\ (~HasVersionField(setup_py) /\ ~HasVersionField(pyproject_toml)) =>
              version = NoVersion

\* ------------------------------------------------------------------
\* C4 as stated.  get_project_version returns the content of version.txt
\* verbatim when the file exists, whatever setup.py and pyproject.toml hold;
\* otherwise the version field of setup.py, otherwise that of
\* pyproject.toml, otherwise None.
\* ------------------------------------------------------------------
C4_Verbatim ==
    (ver_pc = "done") =>
        /\ version_txt.exists =>
              version.found /\ version.value = version_txt.content
        /\ FallbackPrecedence

\* ------------------------------------------------------------------
\* C4 as amended.  get_project_version returns the content of version.txt
\* with its leading and trailing white space removed when the file exists,
\* whatever setup.py and pyproject.toml hold; otherwise the version field of
\* setup.py, otherwise that of pyproject.toml, otherwise None.
\* ------------------------------------------------------------------
C4_StrippedPrecedence ==
    (ver_pc = "done") =>
        /\ version_txt.exists =>
              version.found /\ IsStripOf(version.value, version_txt.content)
        /\ FallbackPrecedence

\* version.txt wins over a setup.py and a pyproject.toml that both hold a
\* version field, and what is returned is not the file's content verbatim.
C4_Witness ==
    /\ ver_pc = "done"
    /\ version_txt.exists
    /\ HasVersionField(setup_py)
    /\ HasVersionField(pyproject_toml)
    /\ version.value = <<"1">>
    /\ version.value # version_txt.content

\* ------------------------------------------------------------------
\* Specification of the GPU target list alone: the compute-capability query
\* fails or prints any lines, and the list is derived from it once.
\* ------------------------------------------------------------------

StandardCaps == Range(all_arches)

SmiLines ==
    StandardCaps \cup {Cap(6, 1), Cap(7, 0), Cap(8, 8), OtherText, BlankLine}

ArchInit ==
    /\ smi_query \in {QueryFailed} \cup
           {[ok |-> TRUE, lines |-> l] :
               l \in UNION {[1..n -> SmiLines] : n \in 0..MaxGpus}}
    /\ arch_list = <<>>
    /\ arch_pc = "start"
    /\ wheels_dir = NoWheelsDir
    /\ CopyIdle
    /\ VerIdle
    /\ SubIdle
    /\ BuildIdle
    /\ CudaIdle

DetectArches ==
    /\ arch_pc = "start"
    /\ arch_list' = DetectArchList(smi_query)
    /\ arch_pc' = "done"
    /\ UNCHANGED <<smi_query, restOfArch>>

ArchNext == DetectArches

SpecArch == ArchInit /\ [][ArchNext]_vars

\* The values the query reported: its lines that are not blank.
Reported == {i \in DOMAIN smi_query.lines : smi_query.lines[i].kind # "blank"}

\* The query reported exactly one value, the compute capability v.
ReportedOnly(v) ==
    /\ smi_query.ok
    /\ Cardinality(Reported) = 1
    /\ \A i \in Reported : smi_query.lines[i] = v

DetectionFailed == ~smi_query.ok \/ Reported = {}

\* l holds exactly the standard values that are at most v, highest first.
IsStandardUpTo(l, v) ==
    /\ Range(l) = {a \in StandardCaps : ToFloat(a) <= ToFloat(v)}
    /\ \A i, j \in DOMAIN l : i < j => ToFloat(l[i]) > ToFloat(l[j])

NumericCaps == {c \in SmiLines : c.kind = "num"}

\* ------------------------------------------------------------------
\* C8 as stated.  When the query reports exactly one compute capability v,
\* the GPU target list is the list of the standard values that are <= v,
\* in descending order, for every v; when detection fails the list is
\* 7.5;8.0;8.6.
\* ------------------------------------------------------------------
C8_ExpandEveryValue ==
    (arch_pc = "done") =>
        /\ \A v \in NumericCaps : ReportedOnly(v) => IsStandardUpTo(arch_list, v)
        /\ DetectionFailed => arch_list = CommonArches

\* ------------------------------------------------------------------
\* C8 as amended.  When the query reports exactly one compute capability v
\* that is at least 7.5, the GPU target list is the list of the standard
\* values that are <= v, in descending order; when v is below 7.5 the list
\* is v alone; when detection fails the list is 7.5;8.0;8.6.
\* ------------------------------------------------------------------
C8_ExpandFromLowestStandard ==
    (arch_pc = "done") =>
        /\ \A v \in NumericCaps :
              ReportedOnly(v) =>
                  IF ToFloat(v) >= ToFloat(Cap(7, 5))
                  THEN IsStandardUpTo(arch_list, v)
                  ELSE arch_list = <<v>>
        /\ DetectionFailed => arch_list = CommonArches

\* The single value 8.6 was expanded to 8.6;8.0;7.5.
C8_Witness ==
    /\ arch_pc = "done"
    /\ ReportedOnly(Cap(8, 6))
    /\ arch_list = <<Cap(8, 6), Cap(8, 0), Cap(7, 5)>>

\* ------------------------------------------------------------------
\* Specification of the submodule manager: the script is run again and
\* again, each time with any flags, on a working tree in which one
\* configured submodule starts out in any state and the others registered
\* and initialized.  (An iteration reads and writes only the paths of its own
\* name: <name>, <name>_temp, backup_repos/<name>_backup and the entry of
\* <name> in .gitmodules.)
\* ------------------------------------------------------------------

DirStates == {AbsentDir, PlainDir} \cup {RepoDir(c) : c \in SUBSET ChangeKinds}

Fails == 0..max_attempts

SubArgs == [add_missing : BOOLEAN, update : BOOLEAN, check : BOOLEAN, setup : BOOLEAN]

SubInit ==
    /\ \E varied \in SubmoduleNames, registered \in BOOLEAN, dir \in DirStates :
          /\ gitmodules = (SubmoduleNames \ {varied}) \cup
                               (IF registered THEN {varied} ELSE {})
          /\ subdir = [n \in SubmoduleNames |->
                          IF n = varied THEN dir ELSE RepoDir({})]
    /\ temp_dir = [n \in SubmoduleNames |-> NoTemp]
    /\ backup = [n \in SubmoduleNames |-> NoBackup]
    /\ sub_pc = "idle"
    /\ sub_mode = "none"
    /\ sub_idx = 0
    /\ sub_last = "none"
    /\ sub_before = NoSnapshot
    /\ sub_ops = <<>>
    /\ sub_in = NoOutcomes
    /\ sub_failed = FALSE
    /\ wheels_dir = NoWheelsDir
    /\ CopyIdle
    /\ VerIdle
    /\ ArchIdle
    /\ BuildIdle
    /\ CudaIdle

Snapshot(name) ==
    [registered |-> name \in gitmodules, dir |-> subdir[name],
     temp |-> temp_dir[name], backup |-> backup[name]]

\* main (lines 190-209): parse the flags and enter the selected operation.
\* update_submodules (lines 50-54) is one command on the whole working tree.
SubStart ==
    \E args \in SubArgs :
        LET mode == SelectMode(args) IN
        /\ sub_pc = "idle"
        /\ sub_mode' = mode
        /\ sub_idx' = 1
        /\ sub_pc' = CASE mode = "add_missing" -> "add"
                        [] mode = "setup" -> "add"
                        [] mode = "check" -> "check"
                        [] OTHER -> "idle"
        /\ sub_last' = "none"
        /\ sub_before' = NoSnapshot
        /\ sub_ops' = IF mode = "update"
                       THEN <<"git submodule update --remote --merge">>
                       ELSE <<>>
        /\ sub_in' = NoOutcomes
        /\ sub_failed' = FALSE
        /\ UNCHANGED <<subFs, restOfSub>>

\* add_missing_submodules (lines 98-171): one iteration of its loop.
AddMissingStep ==
    /\ sub_pc = "add"
    /\ sub_idx <= Len(SUBMODULES)
    /\ LET name == SUBMODULES[sub_idx]
           converts == IsMissing(name) /\ check_if_directory_exists(name)
           repo == converts /\ HasDotGit(name)
       IN
       \* an outcome is an input only where the iteration gets to the operation
       \E rmBackupFails \in IF repo /\ backup[name].exists THEN Fails ELSE {0},
          statusOk \in IF repo THEN BOOLEAN ELSE {TRUE},
          moveFails \in IF converts THEN Fails ELSE {0} :
       \E diffOk \in IF repo /\ statusOk /\ subdir[name].changes # {}
                      THEN BOOLEAN ELSE {TRUE},
          addOk \in IF IsMissing(name) /\ SafelyRetry(moveFails).ok
                     THEN BOOLEAN ELSE {TRUE} :
       \E applyOk \in IF repo /\ statusOk /\ diffOk /\ addOk
                          /\ SafelyRetry(moveFails).ok
                          /\ "unstaged" \in subdir[name].changes
                       THEN BOOLEAN ELSE {TRUE},
          rmTempFails \in IF converts /\ SafelyRetry(moveFails).ok
                           THEN Fails ELSE {0} :
           LET r == add_missing_one(name,
                        [rmBackupFails |-> rmBackupFails, statusOk |-> statusOk,
                         diffOk |-> diffOk, moveFails |-> moveFails, addOk |-> addOk,
                         applyOk |-> applyOk, rmTempFails |-> rmTempFails])
               last == sub_idx = Len(SUBMODULES)
           IN
           /\ gitmodules' = IF r.registered THEN gitmodules \cup {name}
                             ELSE gitmodules \ {name}
           /\ subdir' = [subdir EXCEPT ![name] = r.dir]
           /\ temp_dir' = [temp_dir EXCEPT ![name] = r.temp]
           /\ backup' = [backup EXCEPT ![name] = r.backup]
           /\ sub_ops' = r.ops
           /\ sub_in' = [moveFails |-> moveFails, addOk |-> addOk]
           /\ sub_failed' = \/ sub_failed
                             \/ ~SafelyRetry(rmBackupFails).ok
                             \/ ~SafelyRetry(moveFails).ok
                             \/ ~SafelyRetry(rmTempFails).ok
                             \/ ~(statusOk /\ diffOk /\ addOk /\ applyOk)
           /\ sub_last' = name
           /\ sub_before' = Snapshot(name)
           /\ sub_idx' = sub_idx + 1
           /\ sub_pc' = IF r.crashed THEN "crashed"
                         ELSE IF ~last THEN "add"
                         ELSE IF sub_mode = "setup" THEN "init"
                         ELSE "idle"
    /\ UNCHANGED <<sub_mode, restOfSub>>

\* initialize_submodules (lines 43-48), the second half of setup_submodules:
\* git submodule init, then git submodule update, which checks out every
\* registered submodule that is not checked out yet.
InitializeSubmodules ==
    \E updateOk \in BOOLEAN :
        /\ sub_pc = "init"
        /\ subdir' = [n \in SubmoduleNames |->
                         IF updateOk /\ UpdateChecksOut(n)
                         THEN RepoDir({}) ELSE subdir[n]]
        /\ sub_ops' = <<"git submodule init", "git submodule update">>
        /\ sub_in' = NoOutcomes
        /\ sub_failed' = (sub_failed \/ ~updateOk)
        /\ sub_last' = "none"
        /\ sub_before' = NoSnapshot
        /\ sub_pc' = "idle"
        /\ UNCHANGED <<gitmodules, temp_dir, backup, sub_mode, sub_idx, restOfSub>>

\* check_and_pull_submodules (lines 173-183): one iteration of its loop.
CheckPullStep ==
    \E initOk \in BOOLEAN :
        LET name == SUBMODULES[sub_idx]
            r == check_and_pull_one(name, initOk)
        IN
        /\ sub_pc = "check"
        /\ sub_idx <= Len(SUBMODULES)
        /\ initOk \/ r.ops # <<>>
        /\ subdir' = [subdir EXCEPT ![name] = r.dir]
        /\ sub_ops' = r.ops
        /\ sub_in' = NoOutcomes
        /\ sub_failed' = (sub_failed \/ ~initOk)
        /\ sub_last' = name
        /\ sub_before' = Snapshot(name)
        /\ sub_idx' = sub_idx + 1
        /\ sub_pc' = IF sub_idx = Len(SUBMODULES) THEN "idle" ELSE "check"
        /\ UNCHANGED <<gitmodules, temp_dir, backup, sub_mode, restOfSub>>

SubNext == SubStart \/ AddMissingStep \/ InitializeSubmodules \/ CheckPullStep

SpecSub == SubInit /\ [][SubNext]_vars

\* ------------------------------------------------------------------
\* C6.  Reconciliation is idempotent: whenever a step of
\* add_missing_submodules or check_and_pull_submodules has processed a
\* configured subproject that was already registered in .gitmodules and
\* initialized (its path held .git), the step issued no command and no
\* directory move, remove or file write, and the subproject's registration,
\* directory, moved-aside copy and backup are as they were.
\* ------------------------------------------------------------------
C6_Idempotent ==
    \A n \in SubmoduleNames :
        (sub_last = n /\ sub_before.registered /\ sub_before.dir.dir = "repo") =>
            /\ sub_ops = <<>>
            /\ n \in gitmodules
            /\ subdir[n] = sub_before.dir
            /\ temp_dir[n] = sub_before.temp
            /\ backup[n] = sub_before.backup

\* A second pass over a subproject that an earlier run of the script had to
\* convert: the earlier run left its backup, so this is not the first run.
C6_Witness ==
    /\ sub_last = "fairseq"
    /\ sub_pc \in {"add", "check"}
    /\ sub_before.registered
    /\ sub_before.dir.dir = "repo"
    /\ \E n \in SubmoduleNames : backup[n].exists

\* ------------------------------------------------------------------
\* Specification of the wheel builder: one run of main (lines 552-670) on a
\* host and a working tree in which at most MaxPresent project directories
\* exist, with any outcome of the commands it issues.
\* ------------------------------------------------------------------

\* --package: not given, the empty text, a name that is no project, a project.
PackageArgs == {NoArg, Arg(""), Arg("nosuch"), Arg("fairseq")}

\* --cuda-home: not given, a directory that exists, one that does not.
CudaHomeArgs == {NoArg, Arg("/usr/local/cuda"), Arg("/nowhere")}

Host(smi, torch, platform, nvcc, paths, win_cuda) ==
    [smi |-> smi, torch |-> torch, platform |-> platform, nvcc |-> nvcc,
     paths |-> paths, win_cuda |-> win_cuda]

\* Hosts: without a GPU; with a GPU and a torch built for it; with a GPU and
\* a CPU-only torch; with a GPU and no torch; a Windows host whose only sign
\* of CUDA is the toolkit's compiler.
CpuHost == Host("notfound", "cpu", "Linux", FALSE, {}, NoArg)

Machines ==
    { CpuHost,
      Host("ok", "cuda", "Linux", FALSE, {"/usr/local/cuda"}, NoArg),
      Host("ok", "cpu", "Linux", FALSE, {"/usr/local/cuda"}, NoArg),
      Host("ok", "absent", "Linux", FALSE, {}, NoArg),
      Host("notfound", "absent", "Windows", TRUE, {}, Arg("C:/CUDA/v12.1")) }

\* The output directory before the run: absent, or left empty by an earlier run.
WheelsDirs == {NoWheelsDir, [exists |-> TRUE, files |-> {}]}

\* The runs: any --package on the host without a GPU, with or without an
\* output directory, and any --cuda-home on any host when every project is
\* to be built in a fresh checkout.
BuildSetups ==
    {[package |-> p, cuda_home |-> NoArg, machine |-> CpuHost, wheels |-> w] :
        p \in PackageArgs, w \in WheelsDirs}
    \cup
    {[package |-> NoArg, cuda_home |-> c, machine |-> m, wheels |-> NoWheelsDir] :
        c \in CudaHomeArgs, m \in Machines}

V122 == <<"0.12.2">>

NestedVersions == {NoFile, File(V122), File(PinnedVersion)}

VersionField(v) == <<"version", "=", "dq">> \o v \o <<"dq">>

Layout(vt, sp, pp) == [version_txt |-> vt, setup_py |-> sp, pyproject_toml |-> pp]

\* What a project directory holds of the three files build_wheel reads.
ProjectLayouts ==
    { Layout(NoFile, NoFile, File(VersionField(PinnedVersion))),
      Layout(NoFile, NoFile, File(VersionField(V122))),
      Layout(File(V122 \o <<"\n">>), NoFile, File(<<"name", "=", "dq", "x", "dq">>)),
      Layout(NoFile, File(VersionField(V122)), NoFile),
      Layout(NoFile, NoFile, File(<<"name", "=", "dq", "x", "dq">>)),
      Layout(File(<<"\n">>), NoFile, File(VersionField(V122))) }

\* Outcomes of the compute-capability query during a build.
BuildQueries == {QueryFailed, [ok |-> TRUE, lines |-> <<Cap(8, 6)>>]}

\* The wheel the build of a project leaves in its dist directory.
WheelOf(project) ==
    CASE project = "CLAP" -> W115
      [] project = "fairseq" -> WFairseq
      [] OTHER -> <<project, "-py3-none-any", WhlSuffix>>

BuildInit ==
    /\ \E setup \in BuildSetups :
          /\ build_args = [package |-> setup.package, cuda_home |-> setup.cuda_home]
          /\ machine = setup.machine
          /\ wheels_dir = setup.wheels
    /\ present \in {P \in SUBSET ProjectNames : Cardinality(P) <= MaxPresent}
    /\ nested_version \in IF "fairseq" \in present THEN NestedVersions ELSE {NoFile}
    /\ \E head \in IF "fairseq" \in present THEN {"old", "pin"} ELSE {"tip"} :
          heads = [n \in SubmoduleNames |-> IF n = "fairseq" THEN head ELSE "tip"]
    /\ refresh = "none"
    /\ environ = NoEnv
    /\ build_env = NoEnv
    /\ projects = <<>>
    /\ idx = 0
    /\ pc = "start"
    /\ cuda_available = FALSE
    /\ total_wheels = 0
    /\ copied_wheels = <<>>
    /\ build_version = NoVersion
    /\ log = <<>>
    /\ CopyIdle
    /\ VerIdle
    /\ ArchIdle
    /\ SubIdle
    /\ CudaIdle

\* update_submodules (lines 496-549) as main calls it at line 560: every
\* failure is caught.  The commands of lines 503-510 succeed or not; those of
\* the submodules that git submodule status lists succeed or not.
UpdateSubmodules ==
    \E refreshOk \in BOOLEAN,
       listed \in SUBSET (present \cap SubmoduleNames),
       pin \in PinOutcomes :
    \E pulled \in SUBSET (listed \ {"fairseq"}) :
        LET u == update_submodules(listed, heads, nested_version,
                     [refreshOk |-> refreshOk, pin |-> pin, pulled |-> pulled])
        IN
        /\ pc = "start"
        /\ refreshOk \/ (listed = {} /\ pin = "ok")
        /\ pin = "ok" \/ "fairseq" \in listed
        /\ heads' = u.heads
        /\ nested_version' = u.nested
        /\ refresh' = IF u.clean THEN "clean" ELSE "failed"
        /\ log' = Append(log, Ev("update_submodules", ""))
        /\ pc' = "select"
        /\ UNCHANGED <<build_args, machine, present, environ, build_env, projects,
                       idx, cuda_available, total_wheels, copied_wheels,
                       build_version, wheels_dir, restOfBuild>>

\* lines 575-588: the project filter, then create_dir(wheels_dir)
SelectProjects ==
    LET package == build_args.package
        rejected == Truthy(package) /\ package.text \notin ProjectNames
    IN
    /\ pc = "select"
    /\ projects' = IF ~Truthy(package) THEN all_projects
                   ELSE IF rejected THEN projects
                   ELSE <<package.text>>
    /\ wheels_dir' = IF rejected THEN wheels_dir
                     ELSE [exists |-> TRUE, files |-> wheels_dir.files]
    /\ log' = IF rejected THEN Append(log, Ev("error_package_not_found", package.text))
              ELSE IF ~wheels_dir.exists THEN Append(log, Ev("create_dir", "wheels"))
              ELSE log
    /\ pc' = IF rejected THEN "returned" ELSE "cuda"
    /\ refresh' = "none"
    /\ UNCHANGED <<build_args, machine, present, nested_version, heads, environ, build_env,
                   idx, cuda_available, total_wheels, copied_wheels, build_version,
                   restOfBuild>>

\* lines 589-617: the CUDA decision and ensure_torch_with_cuda
ConfigureCuda ==
    \E pipOk \in BOOLEAN :
        LET arg == build_args.cuda_home
            available == IF Truthy(arg) THEN arg.text \in machine.paths
                         ELSE has_cuda(machine)
            cuda_home == IF Truthy(arg) THEN arg
                         ELSE IF available /\ environ["CUDA_HOME"].kind = "unset"
                         THEN find_cuda_home(environ, machine)
                         ELSE NoArg
            t == ensure_torch_with_cuda(machine, pipOk)
        IN
        /\ pc = "cuda"
        /\ (available /\ t.pip) \/ pipOk
        /\ environ' = IF Truthy(cuda_home)
                      THEN [environ EXCEPT !["CUDA_HOME"] = EnvText(cuda_home.text)]
                      ELSE environ
        /\ cuda_available' = available
        /\ machine' = IF available THEN [machine EXCEPT !.torch = t.torch] ELSE machine
        /\ log' = IF available THEN Append(log, Ev("ensure_torch_with_cuda", ""))
                  ELSE log
        /\ pc' = IF available /\ t.raised THEN "crashed" ELSE "deps"
        /\ UNCHANGED <<build_args, present, nested_version, heads, refresh, build_env, projects, idx,
                       total_wheels, copied_wheels, build_version, wheels_dir,
                       restOfBuild>>

\* install_project_dependencies (lines 191-236): each pip command is in a
\* try of its own, so no outcome leaves the function.
InstallDeps ==
    /\ pc = "deps"
    /\ log' = Append(log, Ev("install_project_dependencies", ""))
    /\ idx' = 1
    /\ pc' = "loop"
    /\ UNCHANGED <<build_args, machine, present, nested_version, heads, refresh, environ, build_env,
                   projects, cuda_available, total_wheels, copied_wheels,
                   build_version, wheels_dir, restOfBuild>>

\* lines 631-635: the project directory does not exist
LoopSkip ==
    /\ pc = "loop"
    /\ idx <= Len(projects)
    /\ ~ProjectExists(projects[idx])
    /\ log' = Append(log, Ev("skip", projects[idx]))
    /\ idx' = idx + 1
    /\ UNCHANGED <<build_args, machine, present, nested_version, heads, refresh, environ, build_env,
                   projects, pc, cuda_available, total_wheels, copied_wheels,
                   build_version, wheels_dir, restOfBuild>>

\* lines 641 and 283-398: build_wheel is called and runs up to its build
\* command, or returns None before it (lines 647-648 then print the failure).
BuildPrepare ==
    \E files \in ProjectLayouts, query \in BuildQueries, fileError \in BOOLEAN :
        LET project == projects[idx]
            b == build_wheel_setup(project, files, nested_version, environ,
                                   machine, query, fileError)
        IN
        /\ pc = "loop"
        /\ idx <= Len(projects)
        /\ ProjectExists(project)
        /\ query = QueryFailed \/
               (project = "fairseq" /\ has_cuda(machine) /\ machine.platform = "Linux"
                  /\ b.returns = "build")
        /\ nested_version' = b.nested
        /\ environ' = b.environ
        /\ build_env' = b.build_env
        /\ build_version' = IF b.returns = "build" THEN b.version ELSE NoVersion
        /\ log' = IF b.returns = "build"
                  THEN Append(log, Ev("build_wheel", project))
                  ELSE log \o <<Ev("build_wheel", project), Ev("failed", project)>>
        /\ idx' = IF b.returns = "build" THEN idx ELSE idx + 1
        /\ pc' = IF b.returns = "build" THEN "invoke" ELSE "loop"
        /\ UNCHANGED <<build_args, machine, present, heads, refresh, projects,
                       cuda_available, total_wheels, copied_wheels, wheels_dir,
                       restOfBuild>>

\* lines 399-406 and 642-648: the build command runs; on its failure
\* build_wheel returns None; on its success main calls copy_wheels on the
\* dist directory, which a failing copy leaves by an exception that nothing in
\* main catches.
BuildInvoke ==
    \E toolOk \in BOOLEAN, failAt \in 0..1 :
        LET project == projects[idx]
            dist == [exists |-> TRUE, listing |-> <<WheelOf(project)>>]
            r == copy_wheels(dist, wheels_dir.files, failAt)
        IN
        /\ pc = "invoke"
        /\ toolOk \/ failAt = 0
        /\ wheels_dir' = IF toolOk THEN [wheels_dir EXCEPT !.files = r.target]
                         ELSE wheels_dir
        /\ total_wheels' = IF toolOk /\ ~r.raised THEN total_wheels + r.ret.count
                           ELSE total_wheels
        /\ copied_wheels' = IF toolOk /\ ~r.raised THEN copied_wheels \o r.ret.files
                            ELSE copied_wheels
        /\ log' = log \o
                  (IF ~toolOk THEN <<Ev("build_tool", project), Ev("failed", project)>>
                   ELSE IF r.raised
                   THEN <<Ev("build_tool", project), Ev("copy_wheels", project)>>
                   ELSE <<Ev("build_tool", project), Ev("copy_wheels", project),
                          Ev("built", project)>>)
        /\ build_version' = NoVersion
        /\ idx' = IF toolOk /\ r.raised THEN idx ELSE idx + 1
        /\ pc' = IF toolOk /\ r.raised THEN "crashed" ELSE "loop"
        /\ UNCHANGED <<build_args, machine, present, nested_version, heads, refresh,
                       environ, build_env, projects, cuda_available, restOfBuild>>

\* lines 650-670: the end-of-run summary
Summary ==
    /\ pc = "loop"
    /\ idx > Len(projects)
    /\ log' = Append(log, Ev("summary", ""))
    /\ pc' = "done"
    /\ UNCHANGED <<build_args, machine, present, nested_version, heads, refresh, environ, build_env,
                   projects, idx, cuda_available, total_wheels, copied_wheels,
                   build_version, wheels_dir, restOfBuild>>

Next ==
    UpdateSubmodules \/ SelectProjects \/ ConfigureCuda \/ InstallDeps \/ LoopSkip
        \/ BuildPrepare \/ BuildInvoke \/ Summary

Spec == BuildInit /\ [][Next]_vars

\* The interpreter runs main on to its next statement as long as there is
\* one.
FairSpec == Spec /\ WF_vars(Next)

\* The entries of the log that are a call of `op` for `project`.
Logged(op, project) == \E i \in DOMAIN log : log[i] = Ev(op, project)

\* The loop of main is at a project whose directory does not exist.
AtMissingProject ==
    pc = "loop" /\ idx <= Len(projects) /\ projects[idx] \notin present

\* ------------------------------------------------------------------
\* C3.  A subproject of the build list whose directory does not exist is
\* skipped by the main loop without raising: build_wheel and copy_wheels
\* are never invoked for it, the step that meets it leaves total_wheels,
\* copied_wheels and the output directory as they are, and the loop goes on
\* to the next position of the list.
\* ------------------------------------------------------------------
C3_MissingSkipped ==
    /\ [](\A p \in ProjectNames \ present :
              ~Logged("build_wheel", p) /\ ~Logged("build_tool", p)
                  /\ ~Logged("copy_wheels", p))
    /\ [][AtMissingProject =>
              /\ pc' = "loop"
              /\ idx' = idx + 1
              /\ total_wheels' = total_wheels
              /\ copied_wheels' = copied_wheels
              /\ wheels_dir' = wheels_dir
              /\ log' = Append(log, Ev("skip", projects[idx]))]_vars

\* A run that skipped a missing project and went on to build a later one.
C3_Witness ==
    /\ Logged("skip", "CLAP")
    /\ Logged("built", "fairseq")
    /\ total_wheels = 1
    /\ pc = "done"

\* ------------------------------------------------------------------
\* C5.  Whenever build_wheel for fairseq has resolved a version other than
\* "0.12.3" and is about to invoke the build tool, fairseq/version.txt under
\* the project directory holds "0.12.3".
\* ------------------------------------------------------------------
C5_PinnedBeforeBuild ==
    (/\ pc = "invoke"
     /\ projects[idx] = "fairseq"
     /\ build_version.found
     /\ build_version.value # PinnedVersion)
        => nested_version = File(PinnedVersion)

\* ------------------------------------------------------------------
\* C7.  When --package names something that is not in the project list,
\* the run prints the error and, from then on, calls no build_wheel,
\* installs no dependency, copies no artifact and does not create the output
\* directory.
\* ------------------------------------------------------------------
C7_InvalidPackageBuildsNothing ==
    (/\ build_args.package.given
     /\ build_args.package.text \notin ProjectNames
     /\ pc \notin {"start", "select"})
        => /\ Logged("error_package_not_found", build_args.package.text)
           /\ \A i \in DOMAIN log :
                  log[i].op \notin {"create_dir", "install_project_dependencies",
                                    "build_wheel", "build_tool", "copy_wheels"}
           /\ pc = "returned"

\* The command line is valid: no --package, or one that names a project.
ValidCommandLine ==
    ~build_args.package.given \/ build_args.package.text \in ProjectNames

\* ------------------------------------------------------------------
\* C9.  From every state of a run with a valid command line, the run
\* eventually reaches its end-of-run summary.
\* ------------------------------------------------------------------
C9_ReachesSummary == ValidCommandLine ~> (pc = "done")

\* The positions of `projects` whose subproject failed: its build_wheel call
\* returned None, or the copy of its artifacts raised.
FailedAt(i) ==
    /\ i \in DOMAIN projects
    /\ \/ Logged("failed", projects[i])
       \/ Logged("copy_wheels", projects[i]) /\ ~Logged("built", projects[i])

\* ------------------------------------------------------------------
\* C10.  build_wheel never propagates an exception (a run ends early only
\* in ensure_torch_with_cuda or copy_wheels), and at the end of a run every
\* project of the list whose directory exists and that comes after a failed
\* project has had its build_wheel call.
\* ------------------------------------------------------------------
C10_LaterProjectsAttempted ==
    /\ pc = "crashed" => log[Len(log)].op \in {"ensure_torch_with_cuda", "copy_wheels"}
    /\ pc \in {"done", "crashed"} =>
           \A i, j \in DOMAIN projects :
               (FailedAt(i) /\ i < j /\ projects[j] \in present)
                   => Logged("build_wheel", projects[j])

\* ------------------------------------------------------------------
\* Claims on the submodule manager (specification SpecSub)
\* ------------------------------------------------------------------

\* A run of setup_submodules has ended.
SetupEnded == sub_mode = "setup" /\ sub_pc = "idle"

\* ------------------------------------------------------------------
\* C11.  When a run of setup_submodules has ended and every command,
\* directory move and directory remove of the run succeeded, every configured
\* subproject is registered in .gitmodules and its path holds .git,
\* whatever state it started from.
\* ------------------------------------------------------------------
C11_SetupReconciles ==
    (SetupEnded /\ ~sub_failed) =>
        \A n \in SubmoduleNames : check_submodule_exists(n) /\ HasDotGit(n)

\* A clean setup run has ended after it converted a repository with local
\* changes (the patch of the conversion is in the backup).
C11_Witness ==
    /\ SetupEnded
    /\ ~sub_failed
    /\ \E n \in SubmoduleNames : backup[n].has_patch /\ subdir[n].changes # {}

\* The last step converted the repository `n`, which had local changes, and
\* discarded the moved-aside copy.
ConvertedWithChanges(n) ==
    /\ sub_last = n
    /\ ~sub_before.registered
    /\ sub_before.dir.dir = "repo"
    /\ sub_before.dir.changes # {}
    /\ \E i \in DOMAIN sub_ops : sub_ops[i] = "rmtree temp"
    /\ ~temp_dir[n]

\* ------------------------------------------------------------------
\* C12.  When add_missing_submodules has converted a version-controlled
\* plain directory with uncommitted changes and discarded the moved-aside
\* copy, the patch saved in the backup holds every one of those changes
\* (staged, unstaged and untracked).
\* ------------------------------------------------------------------
C12_PatchHoldsAllChanges ==
    \A n \in SubmoduleNames :
        ConvertedWithChanges(n) =>
            /\ backup[n].has_patch
            /\ sub_before.dir.changes \subseteq backup[n].patch

\* The last step moved the directory of `n` aside and its git submodule add
\* failed.
AddFailedAfterMove(n) ==
    /\ sub_last = n
    /\ ~sub_before.registered
    /\ sub_before.dir.dir # "absent"
    /\ RetryFrom(0, sub_in.moveFails).ok
    /\ ~sub_in.addOk

\* ------------------------------------------------------------------
\* C14.  When the registration command fails for a subproject whose
\* directory was moved aside, no later step of the conversion runs (no patch
\* is applied, the moved-aside copy is not deleted) and the pass goes on.
\* ------------------------------------------------------------------
C14_FailedAddAbandons ==
    \A n \in SubmoduleNames :
        AddFailedAfterMove(n) =>
            /\ \A i \in DOMAIN sub_ops : sub_ops[i] \notin {"git apply", "rmtree temp"}
            /\ temp_dir[n]
            /\ sub_pc # "crashed"

\* The last step met a pre-existing directory of `n` whose move failed in
\* every attempt.
MoveGaveUp(n) ==
    /\ sub_last = n
    /\ ~sub_before.registered
    /\ sub_before.dir.dir # "absent"
    /\ sub_in.moveFails >= max_attempts

\* ------------------------------------------------------------------
\* C15.  The retry loop of safely_move_directory and safely_remove_directory
\* ends after at most 3 attempts and reports success exactly when one of
\* them met no file error; when the move of a pre-existing directory fails in
\* every attempt, the subproject is not registered, its directory stays, no
\* registration command is issued, and the pass goes on.
\* ------------------------------------------------------------------
C15_BoundedRetry ==
    /\ \A f \in Fails :
           /\ SafelyRetry(f).attempts <= 3
           /\ SafelyRetry(f).ok <=> (\E k \in 1..3 : k > f)
    /\ \A n \in SubmoduleNames :
           MoveGaveUp(n) =>
               /\ ~check_submodule_exists(n)
               /\ subdir[n] = sub_before.dir
               /\ \A i \in DOMAIN sub_ops : sub_ops[i] # "git submodule add"
               /\ sub_pc \in {"add", "init", "idle"}
               /\ sub_idx = 1 + CHOOSE i \in DOMAIN SUBMODULES : SUBMODULES[i] = n

\* The move of the directory of mamba failed in every attempt and the pass
\* is at the next subproject.
C15_Witness ==
    /\ MoveGaveUp("mamba")
    /\ sub_pc = "add"
    /\ sub_idx = 3

\* ------------------------------------------------------------------
\* Further claims on the wheel builder (specifications Spec and FairSpec)
\* ------------------------------------------------------------------

\* The GPU target list and the force-build flags.
OverlayNames == EnvNames \ {"CUDA_HOME"}

\* The overlay variables that belong to the build of a project.
OverlayOf(project) ==
    CASE project = "fairseq" -> {"TORCH_CUDA_ARCH_LIST", "FORCE_CUDA"}
      [] project = "causal-conv1d" -> {"TORCH_CUDA_ARCH_LIST", "CAUSAL_CONV1D_FORCE_BUILD"}
      [] project = "mamba" -> {"TORCH_CUDA_ARCH_LIST", "MAMBA_FORCE_BUILD"}
      [] OTHER -> {}

\* ------------------------------------------------------------------
\* C13.  The process environment never holds the GPU target list or a
\* force-build flag, and the environment handed to the build tool for a
\* project holds, of these, only the ones of that project's own overlay
\* (none set for the build of another project); CUDA_HOME is handed on as
\* the process environment has it.
\* ------------------------------------------------------------------
C13_OverlayScoped ==
    /\ \A n \in OverlayNames : environ[n] = EnvUnset
    /\ pc = "invoke" =>
           /\ \A n \in OverlayNames :
                  build_env[n] # EnvUnset => n \in OverlayOf(projects[idx])
           /\ build_env["CUDA_HOME"] = environ["CUDA_HOME"]

\* The build tool is about to run for mamba with its flag, after a build of
\* fairseq with FORCE_CUDA earlier in the same run.
C13_Witness ==
    /\ pc = "invoke"
    /\ projects[idx] = "mamba"
    /\ build_env["MAMBA_FORCE_BUILD"] = EnvText("TRUE")
    /\ Logged("build_tool", "fairseq")
    /\ cuda_available

\* ------------------------------------------------------------------
\* Specification of the toolkit lookup alone: find_cuda_home called once on a
\* Windows host without CUDA_HOME, with any of the toolkit versions below
\* registered and installed.
\* ------------------------------------------------------------------

ToolkitNames ==
    {VersionName(9, 2), VersionName(11, 8), VersionName(12, 1), <<"v", "1", "2">>}

CudaInit ==
    /\ cuda_registry \in {NoRegistry} \cup
           {[ok |-> TRUE, keys |-> K] : K \in SUBSET ToolkitNames}
    /\ \E first \in {NoRoot} \cup {[exists |-> TRUE, dirs |-> D] : D \in SUBSET ToolkitNames},
          second \in {NoRoot, [exists |-> TRUE, dirs |-> {VersionName(12, 1)}]} :
          cuda_roots = [r \in Range(CudaRootDirs) |->
                           IF r = CudaRootDirs[1] THEN first ELSE second]
    /\ cuda_found = NoCudaHome
    /\ cuda_pc = "start"
    /\ wheels_dir = NoWheelsDir
    /\ CopyIdle
    /\ VerIdle
    /\ ArchIdle
    /\ SubIdle
    /\ BuildIdle

FindCudaHome ==
    /\ cuda_pc = "start"
    /\ cuda_found' = find_cuda_home_windows(cuda_registry, cuda_roots)
    /\ cuda_pc' = "done"
    /\ UNCHANGED <<cuda_registry, cuda_roots, restOfCuda>>

CudaNext == FindCudaHome

SpecCuda == CudaInit /\ [][CudaNext]_vars

\* The version a toolkit name stands for, as major * 100 + minor.
VersionOf(name) == KeyVersion(name)

\* `name` is the highest version among `candidates`.
IsHighest(name, candidates) ==
    name \in candidates /\ \A other \in candidates : VersionOf(other) <= VersionOf(name)

\* ------------------------------------------------------------------
\* C16.  Whatever find_cuda_home returns on Windows is the highest version
\* among the candidates of the place it comes from: the registry keys for the
\* registry lookup, the version directories of the install location for the
\* directory-listing fallback.
\* ------------------------------------------------------------------
C16_HighestVersion ==
    cuda_pc = "done" =>
        /\ cuda_found.source = "registry" =>
               IsHighest(cuda_found.name, cuda_registry.keys)
        /\ cuda_found.source = "directory" =>
               IsHighest(cuda_found.name, cuda_roots[cuda_found.root].dirs)

\* ------------------------------------------------------------------
\* Specification of the submodule refresh alone: update_submodules called
\* once, as main does first, with the checkouts of the existing submodules at
\* any commit and the nested version file of fairseq in any state.
\* ------------------------------------------------------------------
RefreshInit ==
    /\ build_args = [package |-> NoArg, cuda_home |-> NoArg]
    /\ machine = CpuHost
    /\ present \in {P \in SUBSET ProjectNames : Cardinality(P) <= MaxPresent}
    /\ nested_version \in IF "fairseq" \in present THEN NestedVersions ELSE {NoFile}
    /\ \E at \in [present \cap SubmoduleNames -> Commits] :
          heads = [n \in SubmoduleNames |-> IF n \in present THEN at[n] ELSE "tip"]
    /\ refresh = "none"
    /\ environ = NoEnv
    /\ build_env = NoEnv
    /\ projects = <<>>
    /\ idx = 0
    /\ pc = "start"
    /\ cuda_available = FALSE
    /\ total_wheels = 0
    /\ copied_wheels = <<>>
    /\ build_version = NoVersion
    /\ log = <<>>
    /\ wheels_dir = NoWheelsDir
    /\ CopyIdle
    /\ VerIdle
    /\ ArchIdle
    /\ SubIdle
    /\ CudaIdle

RefreshNext == UpdateSubmodules

SpecRefresh == RefreshInit /\ [][RefreshNext]_vars

\* ------------------------------------------------------------------
\* C17.  After update_submodules has completed with fairseq listed as a
\* submodule and every version-control command succeeding, the checkout of
\* fairseq is at the pinned commit and its nested version file holds
\* "0.12.3", whatever commit and content it started from; and the call moves
\* no other submodule to the pinned commit.
\* ------------------------------------------------------------------
C17_FairseqPinned ==
    /\ []((pc = "select" /\ refresh = "clean") =>
              /\ heads["fairseq"] = "pin"
              /\ nested_version = File(PinnedVersion))
    /\ [][\A n \in SubmoduleNames \ {"fairseq"} :
              heads'[n] = "pin" => heads[n] = "pin"]_vars

\* The positions of the log at which build_wheel is called.
BuildCalls == {i \in DOMAIN log : log[i].op = "build_wheel"}

\* The call of build_wheel at position i of the log has ended before
\* position j: it has returned None, or its build tool has run.
EndedBetween(i, j) ==
    \E k \in DOMAIN log :
        /\ i < k /\ k < j
        /\ log[k].project = log[i].project
        /\ log[k].op \in {"failed", "build_tool"}

GpuProjects == {"fairseq", "causal-conv1d", "mamba"}

\* The environment made for the build tool holds a GPU overlay.
OverlayApplied == \E n \in OverlayNames : build_env[n] # EnvUnset

\* ------------------------------------------------------------------
\* C19.  Whenever the build tool is about to run for fairseq,
\* causal-conv1d or mamba, its environment holds the GPU overlay exactly when
\* main's cuda_available is true, which is what the run announces and
\* finally reports.
\* ------------------------------------------------------------------
C19_AnnouncedIsApplied ==
    (pc = "invoke" /\ projects[idx] \in GpuProjects) =>
        (OverlayApplied <=> cuda_available)

====
